---- MODULE Spec2Model ----
(***************************************************************************)
(* MySQL Automated Backup System (mysql_backup.py): the backup run         *)
(* (BackupManager.perform_backup), retention (cleanup_old_backups), the    *)
(* scheduler loop (start_scheduler) and the command surface (main), over   *)
(* a model of the destination directory tree, the scratch directory, the   *)
(* mail transport and the wall clock.                                      *)
(***************************************************************************)
EXTENDS Integers, Sequences, FiniteSets, TLC

\* ------------------------------------------------------------------ bounds
\* Days the wall clock may advance past the start date.
MaxDays == 1
\* Days the daemon is followed after the first whole day it runs.
MaxDaemonDays == 0
\* Largest retention count a configuration may give a class.
MaxKeep == 1
\* Distinct database contents a dump may produce (1..MaxContent).
MaxContent == 1
\* Artifacts a class directory may hold when a cleanup command starts.
MaxFiles == 3
\* Failures the environment may inject in one behaviour: a failing dump or
\* gzip, an I/O error, an undelivered notification, a corrupted artifact, a
\* job that lasts into the next hour.
MaxFaults == 2

\* ---------------------------------------------------------------- calendar
\* datetime.now(): the model's clock is a day ordinal (0 = 1 January of
\* EpochYear) and an hour of the day.
EpochYear == 2024
Years == EpochYear .. (EpochYear + 2)
StartDate == [year |-> 2024, month |-> 11, day |-> 30]

IsLeap(y) == (y % 4 = 0 /\ y % 100 # 0) \/ y % 400 = 0
DaysInYear(y) == IF IsLeap(y) THEN 366 ELSE 365
MonthLengths(y) ==
    <<31, IF IsLeap(y) THEN 29 ELSE 28, 31, 30, 31, 30, 31, 31, 30, 31, 30, 31>>

RECURSIVE DaysBeforeYear(_)
DaysBeforeYear(y) ==
    IF y <= EpochYear THEN 0 ELSE DaysBeforeYear(y - 1) + DaysInYear(y - 1)

RECURSIVE DaysBeforeMonth(_, _)
DaysBeforeMonth(y, m) ==
    IF m <= 1 THEN 0 ELSE DaysBeforeMonth(y, m - 1) + MonthLengths(y)[m - 1]

Ordinal(y, m, d) == DaysBeforeYear(y) + DaysBeforeMonth(y, m) + (d - 1)

\* now.year, now.month, now.day of a day ordinal
YearOf(o) ==
    CHOOSE y \in Years : DaysBeforeYear(y) <= o /\ o < DaysBeforeYear(y) + DaysInYear(y)
DayOfYear(o) == o - DaysBeforeYear(YearOf(o)) + 1
MonthOf(o) ==
    CHOOSE m \in 1..12 :
        /\ DaysBeforeMonth(YearOf(o), m) < DayOfYear(o)
        /\ DayOfYear(o) <= DaysBeforeMonth(YearOf(o), m) + MonthLengths(YearOf(o))[m]
DayOf(o) == DayOfYear(o) - DaysBeforeMonth(YearOf(o), MonthOf(o))

\* date.isoweekday(): Monday = 1 .. Sunday = 7 (1 January 2024 is a Monday)
IsoWeekday(o) == (o % 7) + 1

\* The number of ISO weeks of year y: 53 when 1 January is a Thursday, or a
\* Wednesday of a leap year.
IsoWeeksInYear(y) ==
    LET jan1 == IsoWeekday(DaysBeforeYear(y))
    IN  IF jan1 = 4 \/ (jan1 = 3 /\ IsLeap(y)) THEN 53 ELSE 52

\* now.isocalendar()[1]
IsoWeek(o) ==
    LET y == YearOf(o)
        w == (DayOfYear(o) - IsoWeekday(o) + 10) \div 7
    IN  IF w < 1 THEN (IF y - 1 \in Years THEN IsoWeeksInYear(y - 1) ELSE 52)
        ELSE IF w > IsoWeeksInYear(y) THEN 1
        ELSE w

\* The calendar of the model's years, tabulated once.
Calendar ==
    [o \in 0 .. (DaysBeforeYear(EpochYear + 2) + DaysInYear(EpochYear + 2) - 1) |->
        [year |-> YearOf(o), month |-> MonthOf(o), day |-> DayOf(o),
         week |-> IsoWeek(o), weekday |-> IsoWeekday(o)]]

\* Decimal formatting: '%Y' and ':02d'
RECURSIVE DigitsOf(_)
DigitsOf(n) == IF n < 10 THEN <<n>> ELSE Append(DigitsOf(n \div 10), n % 10)
\* A format without the leading zero: ':d' for ':02d'.
Unpadded(n) == DigitsOf(n)
Pad2(n) == IF n < 10 THEN <<0, n>> ELSE DigitsOf(n)

\* ------------------------------------------------------------------- names
BackupTypes == {"daily", "weekly", "monthly"}
DbName == "db"

\* BackupManager._get_backup_filename at clock reading t = [day, hour]
get_backup_filename(backup_type, t) ==
    LET d == Calendar[t.day] IN
    IF backup_type = "daily" THEN
        [db |-> DbName, kind |-> "_daily_",
         first |-> DigitsOf(d.year) \o Pad2(d.month) \o Pad2(d.day),
         sep |-> "", second |-> <<>>, ext |-> ".sql.gz"]
    ELSE IF backup_type = "weekly" THEN
        [db |-> DbName, kind |-> "_weekly_",
         first |-> DigitsOf(d.year),
         sep |-> "_week", second |-> Pad2(d.week), ext |-> ".sql.gz"]
    ELSE IF backup_type = "monthly" THEN
        [db |-> DbName, kind |-> "_monthly_",
         first |-> DigitsOf(d.year),
         sep |-> "_", second |-> Pad2(d.month), ext |-> ".sql.gz"]
    ELSE
        [db |-> DbName, kind |-> "_ad_hoc_",
         first |-> DigitsOf(d.year) \o Pad2(d.month) \o Pad2(d.day),
         sep |-> "_", second |-> Pad2(t.hour) \o <<0, 0, 0, 0>>, ext |-> ".sql.gz"]

\* backup_dir / backup_filename
BackupPath(backup_type, t) ==
    [dir |-> backup_type, name |-> get_backup_filename(backup_type, t)]

\* ------------------------------------------------------------------- state
VARIABLES
    now,       \* the wall clock: [day |-> day ordinal, hour |-> hour of the day]
    config,    \* the loaded configuration: retention counts, notifier enabled,
               \* and whether the installed schedule library has a month unit
    dest,      \* artifacts of the destination tree: path -> [bytes, mtime]
    sums,      \* .sha256 sidecars of the destination tree: artifact path -> digest
    dirs,      \* class directories that exist under backup_dir
    temp,      \* the scratch directory of the perform_backup call in progress
    cmd,       \* the command main is executing, "none" when no process runs
    exitCode,  \* what the last main returned (-1: none yet)
    pb,        \* the perform_backup call in progress
    cl,        \* the cleanup_old_backups call in progress
    sched,     \* the start_scheduler call in progress and the schedule library's jobs
    mail,      \* notifications attempted by the call in progress, in order
    log,       \* log entries written by the command (or scheduled job) in progress
    faults,    \* failures injected so far
    iv         \* a direct use of IntegrityVerifier on one file: what was sealed,
               \* what the last verify_checksum answered

vars == <<now, config, dest, sums, dirs, temp, cmd, exitCode, pb, cl, sched, mail, log,
          faults, iv>>

\* k more injected failures, within the budget
Inject(k) == faults + k <= MaxFaults /\ faults' = faults + k
Failed(ok) == IF ok THEN 0 ELSE 1

StartOrdinal == Ordinal(StartDate.year, StartDate.month, StartDate.day)
\* The days on which a behaviour may start: StartDate, and the last day of
\* the year, a Tuesday of the ISO week that 1 January 2025 is in.
YearEnd == [year |-> 2024, month |-> 12, day |-> 31]
FirstDays == {StartOrdinal, Ordinal(YearEnd.year, YearEnd.month, YearEnd.day)}
\* The clock is read at the hours a trigger can be due (00:00 .. 03:00, lines
\* 657-666); hour LastHour stands for the rest of the day.
LastHour == 3
Timestamp(t) == t.day * 24 + t.hour

\* hashlib.sha256(...).hexdigest(): different contents, different digests
Sha256(bytes) == [sha256 |-> bytes]
\* What gzip leaves in the scratch file when the pipeline did not complete.
Truncated == 0
\* Bytes that differ from the ones written.
Corrupt(bytes) == bytes + MaxContent + 1

NoPath == [dir |-> "none", name |-> get_backup_filename("none", [day |-> 0, hour |-> 0])]
EmptyTemp == [has_file |-> FALSE, bytes |-> Truncated, has_sum |-> FALSE, sum |-> Sha256(Truncated)]
PbIdle ==
    [pc |-> "idle", type |-> "none", path |-> NoPath, exc |-> "none", raised |-> "none",
     rc |-> 0, dump_rc |-> 0, stderr |-> FALSE, checksum |-> Sha256(Truncated),
     verified |-> "none", moved |-> {}]

\* f with x mapped to v (x added to the domain when new)
Put(f, x, v) == [y \in DOMAIN f \cup {x} |-> IF y = x THEN v ELSE f[y]]
\* f without x
Drop(f, x) == [y \in DOMAIN f \ {x} |-> f[y]]
EmptyMap == [y \in {} |-> 0]

\* ------------------------------------------------------- IntegrityVerifier
\* A verification that finds the sidecar and the file but does not compare.
verify_checksum_without_compare(path, readable) ==
    IF path \notin DOMAIN sums THEN
        [raised |-> FALSE, valid |-> FALSE, message |-> "Checksum file not found"]
    ELSE IF ~readable \/ path \notin DOMAIN dest THEN
        [raised |-> TRUE, valid |-> FALSE, message |-> "Failed to verify checksum"]
    ELSE
        [raised |-> FALSE, valid |-> TRUE, message |-> "Checksum verification passed"]

\* A verification that opens the file before it looks for the sidecar.
verify_checksum_file_first(path, readable) ==
    IF ~readable \/ path \notin DOMAIN dest THEN
        [raised |-> TRUE, valid |-> FALSE, message |-> "Failed to verify checksum"]
    ELSE IF path \notin DOMAIN sums THEN
        [raised |-> FALSE, valid |-> FALSE, message |-> "Checksum file not found"]
    ELSE IF sums[path] = Sha256(dest[path].bytes) THEN
        [raised |-> FALSE, valid |-> TRUE, message |-> "Checksum verification passed"]
    ELSE
        [raised |-> FALSE, valid |-> FALSE, message |-> "Checksum verification failed"]

\* IntegrityVerifier.verify_checksum(file_path); readable = FALSE is an I/O
\* failure while reading the sidecar or the artifact.
verify_checksum(path, readable) ==
    IF path \notin DOMAIN sums THEN
        [raised |-> FALSE, valid |-> FALSE, message |-> "Checksum file not found"]
    ELSE IF ~readable \/ path \notin DOMAIN dest THEN
        [raised |-> TRUE, valid |-> FALSE, message |-> "Failed to verify checksum"]
    ELSE IF sums[path] = Sha256(dest[path].bytes) THEN
        [raised |-> FALSE, valid |-> TRUE, message |-> "Checksum verification passed"]
    ELSE
        [raised |-> FALSE, valid |-> FALSE, message |-> "Checksum verification failed"]

\* A direct use of the verifier on the file iv.path. sealed: the bytes the
\* last calculate_checksum + save_checksum read (-1: none yet); readable and
\* result: the last verify_checksum call.
IvIdle ==
    [pc |-> "idle", path |-> NoPath, sealed |-> -1, readable |-> TRUE,
     result |-> [raised |-> FALSE, valid |-> FALSE, message |-> "none"]]

\* Lines 292-333: calculate_checksum(file_path), then save_checksum(file_path,
\* digest); either raises IntegrityError when its file cannot be read or
\* written.
calculate_and_save_checksum ==
    /\ iv.pc # "idle"
    /\ \E io_ok \in BOOLEAN :
        /\ Inject(Failed(io_ok))
        /\ IF io_ok /\ iv.path \in DOMAIN dest
           THEN /\ sums' = Put(sums, iv.path, Sha256(dest[iv.path].bytes))
                /\ iv' = [iv EXCEPT !.pc = "sealed", !.sealed = dest[iv.path].bytes]
           ELSE /\ sums' = sums
                /\ iv' = [iv EXCEPT !.pc = "raised"]
    /\ UNCHANGED <<now, config, dest, dirs, temp, cmd, exitCode, pb, cl, sched, mail, log>>

\* Lines 336-366: verify_checksum(file_path).
verify_file ==
    /\ iv.pc # "idle"
    /\ \E readable \in BOOLEAN :
        /\ Inject(Failed(readable))
        /\ iv' = [iv EXCEPT !.pc = "verified", !.readable = readable,
                            !.result = verify_checksum(iv.path, readable)]
    /\ UNCHANGED <<now, config, dest, sums, dirs, temp, cmd, exitCode, pb, cl, sched, mail, log>>

\* The file changes under the verifier: other bytes are written to it, it is
\* removed, or its sidecar is removed; the sidecar is never rewritten.
file_changes ==
    /\ iv.pc # "idle"
    /\ \/ /\ iv.path \in DOMAIN dest
          /\ \E b \in (0..MaxContent) \ {dest[iv.path].bytes} :
                dest' = [dest EXCEPT ![iv.path].bytes = b]
          /\ sums' = sums
       \/ /\ iv.path \in DOMAIN dest
          /\ dest' = Drop(dest, iv.path)
          /\ sums' = sums
       \/ /\ iv.path \in DOMAIN sums
          /\ sums' = Drop(sums, iv.path)
          /\ dest' = dest
    /\ iv' = [iv EXCEPT !.pc = "file"]
    /\ UNCHANGED <<now, config, dirs, temp, cmd, exitCode, pb, cl, sched, mail, log, faults>>

\* ---------------------------------------------------------------- Notifier
\* EmailNotifier.send_backup_notification: the event handed to
\* send_notification, with whether the transport delivered it.
BackupEvent(backup_type, success, delivered) ==
    [subject |-> IF success THEN "Backup Successful" ELSE "Backup Failed",
     type |-> backup_type, delivered |-> delivered]
\* send_notification logs and raises NotificationError when delivery fails.
NotifyLog(delivered) == IF delivered THEN {} ELSE {"Failed to send notification"}

\* --------------------------------------------------------- perform_backup
\* subprocess.run(" ".join(cmd), shell=True).returncode for the pipeline
\* "mysqldump ... | gzip > scratch": sh reports the status of the last command.
ShellReturnCode(dump_rc, gzip_rc) == gzip_rc

\* What the pipeline leaves in the scratch file.
PipelineOutput(dump_rc, gzip_rc, content) ==
    IF dump_rc = 0 /\ gzip_rc = 0 THEN content ELSE Truncated

\* A pipeline whose gzip writes straight to backup_path.
PipelineWritesInPlace(tree, path, bytes) ==
    Put(tree, path, [bytes |-> bytes, mtime |-> Timestamp(now)])

\* Line 509: gzip's output is redirected to temp_backup_path, a file of the
\* scratch directory of line 484: the pipeline leaves the destination tree as
\* it is.
DestinationAfterPipeline(tree, path, bytes) == tree

\* Lines 472-485: the call's frame once the class directory exists and the
\* filename is fixed.
PbStart(backup_type) ==
    [PbIdle EXCEPT !.pc = "dump", !.type = backup_type, !.path = BackupPath(backup_type, now)]

PbRaise(frame, e) == [frame EXCEPT !.pc = "except", !.exc = e]

\* A check that also takes output on stderr for a failure.
DumpFailedOrStderr(rc, err) == rc # 0 \/ err

\* Line 520: the dump failed when the return code is not 0; process.stderr
\* (err: it is not empty) only goes into the message.
DumpFailed(rc, err) == rc # 0

\* Lines 488-521: build and run the dump pipeline, check its return code.
\* mysqldump reports a failure on stderr; it may also warn there and exit 0.
perform_backup_dump ==
    /\ pb.pc = "dump"
    /\ \E dump_rc \in {0, 2}, gzip_rc \in {0, 1}, err \in BOOLEAN, content \in 1..MaxContent :
        LET rc == ShellReturnCode(dump_rc, gzip_rc)
            frame == [pb EXCEPT !.rc = rc, !.dump_rc = dump_rc, !.stderr = err]
        IN  /\ dump_rc # 0 => err
            /\ Inject(Failed(dump_rc = 0) + Failed(gzip_rc = 0))
            /\ temp' = [EmptyTemp EXCEPT !.has_file = TRUE,
                                         !.bytes = PipelineOutput(dump_rc, gzip_rc, content)]
            /\ dest' = DestinationAfterPipeline(dest, pb.path,
                                                PipelineOutput(dump_rc, gzip_rc, content))
            /\ pb' = IF DumpFailed(rc, err) THEN PbRaise(frame, "BackupProcessError")
                     ELSE [frame EXCEPT !.pc = "seal"]
    /\ UNCHANGED <<now, config, iv, sums, dirs, cmd, exitCode, cl, sched, mail, log>>

\* Lines 523-525: calculate_checksum and save_checksum on the scratch file.
perform_backup_seal ==
    /\ pb.pc = "seal"
    /\ \E io_ok \in BOOLEAN :
        /\ Inject(Failed(io_ok))
        /\ IF io_ok
           THEN /\ temp' = [temp EXCEPT !.has_sum = TRUE, !.sum = Sha256(temp.bytes)]
                /\ pb' = [pb EXCEPT !.pc = "move_file", !.checksum = Sha256(temp.bytes)]
           ELSE /\ temp' = temp
                /\ pb' = PbRaise(pb, "IntegrityError")
    /\ UNCHANGED <<now, config, iv, dest, sums, dirs, cmd, exitCode, cl, sched, mail, log>>

\* Line 528: shutil.move(scratch file, backup_path). A move across
\* filesystems is a copy: a failure may leave a truncated file behind, and a
\* faulty copy or storage may leave other bytes than the scratch file's.
perform_backup_move_file ==
    /\ pb.pc = "move_file"
    /\ \E outcome \in {"moved", "failed", "partial", "corrupted"} :
        /\ Inject(Failed(outcome = "moved"))
        /\ dest' = CASE outcome = "moved" ->
                          Put(dest, pb.path, [bytes |-> temp.bytes, mtime |-> Timestamp(now)])
                     [] outcome = "corrupted" ->
                          Put(dest, pb.path,
                              [bytes |-> Corrupt(temp.bytes), mtime |-> Timestamp(now)])
                     [] outcome = "partial" ->
                          Put(dest, pb.path, [bytes |-> Truncated, mtime |-> Timestamp(now)])
                     [] OTHER -> dest
        /\ temp' = IF outcome \in {"moved", "corrupted"}
                   THEN [temp EXCEPT !.has_file = FALSE] ELSE temp
        /\ pb' = IF outcome \in {"moved", "corrupted"}
                 THEN [pb EXCEPT !.pc = "move_sum", !.moved = {"artifact"}]
                 ELSE PbRaise(pb, "OSError")
    /\ UNCHANGED <<now, config, iv, sums, dirs, cmd, exitCode, cl, sched, mail, log>>

\* Line 529: shutil.move(scratch sidecar, backup_path + ".sha256").
perform_backup_move_sum ==
    /\ pb.pc = "move_sum"
    /\ \E moved \in BOOLEAN :
        /\ Inject(Failed(moved))
        /\ IF moved
           THEN /\ sums' = Put(sums, pb.path, temp.sum)
                /\ temp' = [temp EXCEPT !.has_sum = FALSE]
                /\ pb' = [pb EXCEPT !.pc = "verify", !.moved = {"artifact", "sidecar"}]
           ELSE /\ sums' = sums
                /\ temp' = temp
                /\ pb' = PbRaise(pb, "OSError")
    /\ UNCHANGED <<now, config, iv, dest, dirs, cmd, exitCode, cl, sched, mail, log>>

\* Lines 531-534: verify the published artifact.
perform_backup_verify ==
    /\ pb.pc = "verify"
    /\ \E readable \in BOOLEAN :
        /\ Inject(Failed(readable))
        /\ LET r == verify_checksum(pb.path, readable)
           IN  pb' = IF r.raised
                     THEN PbRaise([pb EXCEPT !.verified = "error"], "IntegrityError")
                     ELSE IF ~r.valid
                     THEN PbRaise([pb EXCEPT !.verified = "invalid"], "IntegrityError")
                     ELSE [pb EXCEPT !.pc = "report", !.verified = "valid"]
    /\ UNCHANGED <<now, config, iv, dest, sums, dirs, temp, cmd, exitCode, cl, sched, mail, log>>

\* Lines 536-557: log completion, send the success notification, return the
\* path. The scratch directory is removed when the with block is left.
perform_backup_report ==
    /\ pb.pc = "report"
    /\ IF config.notify
       THEN \E delivered \in BOOLEAN :
               /\ Inject(Failed(delivered))
               /\ mail' = Append(mail, BackupEvent(pb.type, TRUE, delivered))
               /\ log' = log \cup {"backup completed"} \cup NotifyLog(delivered)
               /\ pb' = IF delivered THEN [pb EXCEPT !.pc = "returned"]
                        ELSE PbRaise(pb, "NotificationError")
               /\ temp' = IF delivered THEN EmptyTemp ELSE temp
       ELSE /\ mail' = mail
            /\ log' = log \cup {"backup completed"}
            /\ pb' = [pb EXCEPT !.pc = "returned"]
            /\ temp' = EmptyTemp
            /\ faults' = faults
    /\ UNCHANGED <<now, config, iv, dest, sums, dirs, cmd, exitCode, cl, sched>>

\* Lines 559-572: log the failure, send the failure notification, re-raise.
\* An exception of send_backup_notification leaves the handler in place of
\* the one being handled.
perform_backup_except ==
    /\ pb.pc = "except"
    /\ IF config.notify
       THEN \E delivered \in BOOLEAN :
               /\ Inject(Failed(delivered))
               /\ mail' = Append(mail, BackupEvent(pb.type, FALSE, delivered))
               /\ log' = log \cup {"Backup failed"} \cup NotifyLog(delivered)
               /\ pb' = [pb EXCEPT !.pc = "raised",
                                   !.raised = IF delivered THEN pb.exc ELSE "NotificationError"]
       ELSE /\ mail' = mail
            /\ log' = log \cup {"Backup failed"}
            /\ pb' = [pb EXCEPT !.pc = "raised", !.raised = pb.exc]
            /\ faults' = faults
    /\ temp' = EmptyTemp
    /\ UNCHANGED <<now, config, iv, dest, sums, dirs, cmd, exitCode, cl, sched>>

\* ---------------------------------------------------- cleanup_old_backups
ClIdle ==
    [pc |-> "idle", types |-> <<>>, todo |-> <<>>, failed |-> FALSE, raised |-> "none",
     before |-> EmptyMap, before_sums |-> EmptyMap, tried |-> <<>>]
\* Lines 578-587: the retention dict is walked in the order daily, weekly,
\* monthly. before and before_sums record the destination tree as the call
\* found it, tried the deletions it has attempted, in order.
ClStart ==
    [ClIdle EXCEPT !.pc = "class", !.types = <<"daily", "weekly", "monthly">>,
                   !.before = dest, !.before_sums = sums]

\* A listing that takes every file of the class directory: glob('*').
GlobEveryFile(backup_type) == {p \in DOMAIN dest : p.dir = backup_type}

\* backup_dir.glob('*.sql.gz')
Glob(backup_type) == {p \in DOMAIN dest : p.dir = backup_type /\ p.name.ext = ".sql.gz"}

\* backup_files.sort(key=lambda x: x.stat().st_mtime): oldest first
RECURSIVE SortByMtime(_)
SortByMtime(S) ==
    IF S = {} THEN <<>>
    ELSE LET p == CHOOSE x \in S : \A y \in S : dest[x].mtime <= dest[y].mtime
         IN  <<p>> \o SortByMtime(S \ {p})

\* Python's backup_files[:-days]
SliceToMinus(files, days) ==
    IF days = 0 THEN <<>>
    ELSE IF days > 0 THEN SubSeq(files, 1, Len(files) - days)
    ELSE SubSeq(files, 1, IF Len(files) < -days THEN Len(files) ELSE -days)

\* A selection that keeps one file more than days.
files_to_delete_keep_one_more(backup_files, days) ==
    IF Len(backup_files) > days + 1 THEN SubSeq(backup_files, 1, Len(backup_files) - days - 1)
    ELSE <<>>

\* A selection that takes one file, the oldest, in each run.
files_to_delete_oldest_only(backup_files, days) ==
    IF Len(backup_files) > days THEN SubSeq(backup_files, 1, 1) ELSE <<>>

\* A selection that cuts at the wrong end of the sorted list: backup_files[days:].
files_to_delete_from_newest(backup_files, days) ==
    IF Len(backup_files) > days THEN SubSeq(backup_files, days + 1, Len(backup_files))
    ELSE <<>>

\* Line 601: files_to_delete
files_to_delete(backup_files, days) ==
    IF Len(backup_files) > days THEN SliceToMinus(backup_files, days) ELSE <<>>

\* Lines 587-601: the next class: skip a missing directory, else list, sort
\* and select. Listing or stat may fail (OSError), which leaves the loop for
\* the handler of line 619.
cleanup_old_backups_class ==
    /\ cl.pc = "class"
    /\ IF cl.types = <<>>
       THEN /\ cl' = [cl EXCEPT !.pc = "returned"]
            /\ log' = log \cup {"Backup cleanup completed"}
            /\ faults' = faults
       ELSE LET t == Head(cl.types) IN
            IF t \notin dirs
            THEN /\ cl' = [cl EXCEPT !.types = Tail(cl.types)]
                 /\ log' = log
                 /\ faults' = faults
            ELSE \E io_ok \in BOOLEAN :
                    LET todo == files_to_delete(SortByMtime(Glob(t)), config.retention[t])
                    IN  /\ Inject(Failed(io_ok))
                        /\ cl' = IF ~io_ok THEN [cl EXCEPT !.pc = "except", !.failed = TRUE]
                                 ELSE IF todo = <<>> THEN [cl EXCEPT !.types = Tail(cl.types)]
                                 ELSE [cl EXCEPT !.pc = "delete", !.todo = todo]
                        /\ log' = log
    /\ UNCHANGED <<now, config, iv, dest, sums, dirs, temp, cmd, exitCode, pb, sched, mail>>

\* A loop that leaves the class at the first candidate it could not delete.
NextCandidateUnlessFailed(frame, rest, outcome) ==
    IF rest = <<>> \/ outcome # "deleted"
    THEN [frame EXCEPT !.pc = "class", !.todo = <<>>, !.types = Tail(frame.types)]
    ELSE [frame EXCEPT !.todo = rest]

\* Lines 603 and 614-615: the handler of a failed deletion only logs, so the
\* for loop goes on with the next candidate, and after the last one with the
\* next class.
NextCandidate(frame, rest, outcome) ==
    IF rest = <<>>
    THEN [frame EXCEPT !.pc = "class", !.todo = <<>>, !.types = Tail(frame.types)]
    ELSE [frame EXCEPT !.todo = rest]

\* Lines 603-615: one deletion candidate: the sidecar first (if present), then
\* the artifact; a failure of either unlink is logged and the loop goes on.
cleanup_old_backups_delete ==
    /\ cl.pc = "delete"
    /\ LET p == Head(cl.todo)
           rest == Tail(cl.todo)
       IN  /\ \E outcome \in {"deleted", "sidecar_failed", "file_failed"} :
                /\ outcome = "sidecar_failed" => p \in DOMAIN sums
                /\ Inject(Failed(outcome = "deleted"))
                /\ sums' = IF outcome # "sidecar_failed" /\ p \in DOMAIN sums
                           THEN Drop(sums, p) ELSE sums
                /\ dest' = IF outcome = "deleted" THEN Drop(dest, p) ELSE dest
                /\ log' = log \cup (IF outcome = "deleted" THEN {"Deleted old backup"}
                                    ELSE {"Failed to delete old backup"})
                /\ cl' = NextCandidate(
                             [cl EXCEPT !.tried = Append(cl.tried,
                                                         [path |-> p, outcome |-> outcome])],
                             rest, outcome)
    /\ UNCHANGED <<now, config, iv, dirs, temp, cmd, exitCode, pb, sched, mail>>

\* Lines 619-628: log, send the failure notification; nothing is re-raised,
\* so only an exception of the notification leaves the call.
cleanup_old_backups_except ==
    /\ cl.pc = "except"
    /\ IF config.notify
       THEN \E delivered \in BOOLEAN :
               /\ Inject(Failed(delivered))
               /\ mail' = Append(mail, BackupEvent("cleanup", FALSE, delivered))
               /\ log' = log \cup {"Backup cleanup failed"} \cup NotifyLog(delivered)
               /\ cl' = IF delivered THEN [cl EXCEPT !.pc = "returned"]
                        ELSE [cl EXCEPT !.pc = "raised", !.raised = "NotificationError"]
       ELSE /\ mail' = mail
            /\ log' = log \cup {"Backup cleanup failed"}
            /\ cl' = [cl EXCEPT !.pc = "returned"]
            /\ faults' = faults
    /\ UNCHANGED <<now, config, iv, dest, sums, dirs, temp, cmd, exitCode, pb, sched>>

\* ------------------------------------------------------------- the clock
NextSlot(t) ==
    IF t.hour < LastHour THEN [day |-> t.day, hour |-> t.hour + 1]
    ELSE [day |-> t.day + 1, hour |-> 0]
CanAdvance == NextSlot(now).day <= StartOrdinal + 1 + MaxDaemonDays

\* ---------------------------------------------------- the schedule library
\* every().day.at(h): the next time the clock reads h
NextDailyAt(t, h) ==
    IF t.hour < h THEN [day |-> t.day, hour |-> h] ELSE [day |-> t.day + 1, hour |-> h]
\* every().sunday.at(h)
NextWeekdayAt(t, weekday, h) ==
    LET d == CHOOSE x \in t.day .. (t.day + 7) :
                 /\ Calendar[x].weekday = weekday
                 /\ (x > t.day \/ t.hour < h)
                 /\ \A z \in t.day .. (x - 1) :
                        ~(Calendar[z].weekday = weekday /\ (z > t.day \/ t.hour < h))
    IN  [day |-> d, hour |-> h]
\* every().month.at(h), as line 662 describes it: the 1st day of each month
NextMonthAt(t, h) ==
    LET d == CHOOSE x \in t.day .. (t.day + 31) :
                 /\ Calendar[x].day = 1
                 /\ (x > t.day \/ t.hour < h)
                 /\ \A z \in t.day .. (x - 1) :
                        ~(Calendar[z].day = 1 /\ (z > t.day \/ t.hour < h))
    IN  [day |-> d, hour |-> h]

\* Lines 657-666: the four jobs in registration order, with their rules.
Jobs == <<"run_daily_backup", "run_weekly_backup", "run_monthly_backup", "cleanup_old_backups">>
JobIndex(j) == CHOOSE i \in 1..Len(Jobs) : Jobs[i] = j
ScheduleNext(j, t) ==
    CASE j = "run_daily_backup" -> NextDailyAt(t, 0)
      [] j = "run_weekly_backup" -> NextWeekdayAt(t, 7, 1)
      [] j = "run_monthly_backup" -> NextMonthAt(t, 2)
      [] OTHER -> NextDailyAt(t, 3)
JobBackupType(j) ==
    CASE j = "run_daily_backup" -> "daily"
      [] j = "run_weekly_backup" -> "weekly"
      [] OTHER -> "monthly"

SchedIdle ==
    [pc |-> "idle", next_run |-> EmptyMap, job |-> "none", error |-> "none",
     aborted |-> [pb |-> "idle", cl |-> "idle"]]

\* Lines 654-668: registration. schedule's Job has no month unit: with the
\* library as published, line 663 raises AttributeError before the loop is
\* entered (config.month_unit = FALSE); a library that has the unit registers
\* all four jobs.
start_scheduler_register ==
    IF config.month_unit
    THEN [SchedIdle EXCEPT !.pc = "loop",
                           !.next_run = [j \in {Jobs[i] : i \in 1..4} |-> ScheduleNext(j, now)]]
    ELSE [SchedIdle EXCEPT !.pc = "raised", !.error = "AttributeError",
                           !.next_run = [j \in {Jobs[1], Jobs[2]} |-> ScheduleNext(j, now)]]

\* schedule.run_pending(): the jobs that are due, the earliest next_run first
\* (sorted() is stable: jobs due at the same time keep the order of their
\* registration).
DueJobs == {j \in DOMAIN sched.next_run : Timestamp(sched.next_run[j]) <= Timestamp(now)}
\* The due job whose time came last: the sort reversed.
LatestDue ==
    CHOOSE j \in DueJobs : \A k \in DueJobs :
        Timestamp(sched.next_run[j]) >= Timestamp(sched.next_run[k])

FirstDue ==
    CHOOSE j \in DueJobs : \A k \in DueJobs :
        \/ Timestamp(sched.next_run[j]) < Timestamp(sched.next_run[k])
        \/ /\ Timestamp(sched.next_run[j]) = Timestamp(sched.next_run[k])
           /\ JobIndex(j) <= JobIndex(k)

\* Line 673: run_pending calls the next due job: run_*_backup enters
\* perform_backup (lines 633, 641, 648), the cleanup job is cleanup_old_backups.
scheduler_run_pending ==
    /\ cmd = "daemon" /\ sched.pc = "loop" /\ DueJobs # {}
    /\ LET j == FirstDue IN
        /\ sched' = [sched EXCEPT !.pc = "job", !.job = j]
        /\ IF j = "cleanup_old_backups"
           THEN /\ cl' = ClStart
                /\ UNCHANGED <<pb, dirs>>
           ELSE /\ pb' = PbStart(JobBackupType(j))
                /\ dirs' = dirs \cup {JobBackupType(j)}
                /\ cl' = cl
    /\ mail' = <<>>
    /\ log' = {}
    /\ UNCHANGED <<now, config, iv, dest, sums, temp, cmd, exitCode, faults>>

\* The job returned: schedule sets its next run; back to the loop.
JobDone(j) ==
    [sched EXCEPT !.pc = "loop", !.job = "none",
                  !.next_run = [sched.next_run EXCEPT ![j] = ScheduleNext(j, now)]]

\* Lines 630-650: run_daily_backup, run_weekly_backup, run_monthly_backup once
\* perform_backup has returned or raised. The daily job goes on to
\* cleanup_old_backups after a backup that returned.
run_backup_job_after_backup ==
    /\ cmd = "daemon" /\ sched.pc = "job" /\ sched.job # "cleanup_old_backups"
    /\ pb.pc \in {"returned", "raised"}
    /\ pb' = PbIdle
    /\ IF pb.pc = "returned" /\ sched.job = "run_daily_backup"
       THEN /\ cl' = ClStart
            /\ mail' = <<>>
            /\ UNCHANGED <<sched, log>>
       ELSE /\ sched' = JobDone(sched.job)
            /\ log' = IF pb.pc = "raised" THEN log \cup {"job failed"} ELSE log
            /\ UNCHANGED <<cl, mail>>
    /\ UNCHANGED <<now, config, iv, dest, sums, dirs, temp, cmd, exitCode, faults>>

\* Lines 634-636: cleanup_old_backups of the daily job returned or raised; an
\* exception is caught and logged by run_daily_backup.
run_daily_backup_after_cleanup ==
    /\ cmd = "daemon" /\ sched.pc = "job" /\ sched.job = "run_daily_backup"
    /\ cl.pc \in {"returned", "raised"}
    /\ cl' = ClIdle
    /\ sched' = JobDone(sched.job)
    /\ log' = IF cl.pc = "raised" THEN log \cup {"job failed"} ELSE log
    /\ UNCHANGED <<now, config, iv, dest, sums, dirs, temp, cmd, exitCode, pb, mail, faults>>

\* Lines 666-684: the cleanup job is cleanup_old_backups itself: what it
\* raises passes through run_pending to the handler of line 677, which logs
\* "Scheduler crashed" and leaves the loop.
cleanup_job_after ==
    /\ cmd = "daemon" /\ sched.pc = "job" /\ sched.job = "cleanup_old_backups"
    /\ cl.pc \in {"returned", "raised"}
    /\ cl' = ClIdle
    /\ IF cl.pc = "returned"
       THEN /\ sched' = JobDone(sched.job)
            /\ log' = log
       ELSE /\ sched' = [sched EXCEPT !.pc = "crashed", !.error = cl.raised]
            /\ log' = log \cup {"Scheduler crashed"}
    /\ UNCHANGED <<now, config, iv, dest, sums, dirs, temp, cmd, exitCode, pb, mail, faults>>

\* A crash reported as one more cleanup failure.
CrashEventAsCleanupFailure(delivered) == BackupEvent("cleanup", FALSE, delivered)

\* Lines 680-684: the event of the crash notification, of its own type.
CrashEvent(delivered) == BackupEvent("scheduler", FALSE, delivered)

\* Lines 679-684: the crash notification; its own failure leaves start_scheduler.
start_scheduler_crashed ==
    /\ cmd = "daemon" /\ sched.pc = "crashed"
    /\ IF config.notify
       THEN \E delivered \in BOOLEAN :
               /\ Inject(Failed(delivered))
               /\ mail' = Append(mail, CrashEvent(delivered))
               /\ log' = log \cup NotifyLog(delivered)
               /\ sched' = IF delivered THEN [sched EXCEPT !.pc = "returned"]
                           ELSE [sched EXCEPT !.pc = "raised", !.error = "NotificationError"]
       ELSE /\ sched' = [sched EXCEPT !.pc = "returned"]
            /\ UNCHANGED <<mail, log, faults>>
    /\ UNCHANGED <<now, config, iv, dest, sums, dirs, temp, cmd, exitCode, pb, cl>>

\* Line 674: time.sleep(60) until the next poll at which the clock has moved.
scheduler_sleep ==
    /\ cmd = "daemon" /\ sched.pc = "loop" /\ DueJobs = {}
    /\ CanAdvance
    /\ now' = NextSlot(now)
    /\ UNCHANGED <<config, iv, dest, sums, dirs, temp, cmd, exitCode, pb, cl, sched, mail, log, faults>>

\* A slow job: the clock has reached the next hour when the call the job made
\* comes back, so that later triggers fall due while it runs. Slowness is
\* counted with the failures the environment injects.
job_takes_time ==
    /\ cmd = "daemon" /\ sched.pc = "job"
    /\ pb.pc \in {"returned", "raised"} \/ cl.pc \in {"returned", "raised"}
    /\ CanAdvance
    /\ Inject(1)
    /\ now' = NextSlot(now)
    /\ UNCHANGED <<config, iv, dest, sums, dirs, temp, cmd, exitCode, pb, cl, sched, mail, log>>

\* Lines 675-676: KeyboardInterrupt is raised wherever the main thread is: in
\* the sleep or inside the job being run. It is no Exception, so no handler
\* of perform_backup, cleanup_old_backups or run_*_backup catches it; the
\* with block of line 484 removes the scratch directory on the way out.
keyboard_interrupt ==
    /\ cmd = "daemon" /\ sched.pc \in {"loop", "job"}
    /\ sched' = [sched EXCEPT !.pc = "stopped", !.aborted = [pb |-> pb.pc, cl |-> cl.pc]]
    /\ pb' = PbIdle
    /\ cl' = ClIdle
    /\ temp' = EmptyTemp
    /\ log' = log \cup {"Backup scheduler stopped by user."}
    /\ UNCHANGED <<now, config, iv, dest, sums, dirs, cmd, exitCode, mail, faults>>

\* -------------------------------------------------------------------- main
\* Lines 718-743: construct the manager and dispatch the selected action c.
main_start(c) ==
    /\ cmd = "none"
    /\  /\ cmd' = c
        /\ CASE c = "cleanup" ->
                  /\ cl' = ClStart
                  /\ UNCHANGED <<pb, dirs, sched>>
             [] c = "daemon" ->
                  /\ sched' = start_scheduler_register
                  /\ UNCHANGED <<pb, dirs, cl>>
             [] OTHER ->
                  LET t == IF c = "all" THEN "daily" ELSE c
                  IN  /\ pb' = PbStart(t)
                      /\ dirs' = dirs \cup {t}
                      /\ UNCHANGED <<cl, sched>>
    /\ exitCode' = -1
    /\ mail' = <<>>
    /\ log' = {}
    /\ UNCHANGED <<now, config, iv, dest, sums, temp, faults>>

\* Lines 721-732: --test-notification.
main_test_notification ==
    /\ cmd = "none"
    /\ IF config.notify
       THEN \E delivered \in BOOLEAN :
               /\ Inject(Failed(delivered))
               /\ mail' = <<[subject |-> "Test Notification", type |-> "test",
                             delivered |-> delivered]>>
               /\ log' = {"Sending test notification..."} \cup NotifyLog(delivered)
               /\ exitCode' = IF delivered THEN 0 ELSE 1
       ELSE /\ mail' = <<>>
            /\ log' = {"Email notifications not enabled in config."}
            /\ exitCode' = 1
            /\ faults' = faults
    /\ UNCHANGED <<now, config, iv, dest, sums, dirs, temp, cmd, pb, cl, sched>>

\* A sequence that goes from the daily class straight to the monthly one.
NextOfAllSkippingWeekly(t) == "monthly"

\* Lines 733-739 and 747-752: perform_backup returned or raised. "all" runs
\* daily, weekly, monthly in turn; an exception ends main with 1.
NextOfAll(t) == IF t = "daily" THEN "weekly" ELSE "monthly"
main_after_backup ==
    /\ cmd \in BackupTypes \cup {"all"}
    /\ pb.pc \in {"returned", "raised"}
    /\ IF pb.pc = "returned" /\ cmd = "all" /\ pb.type # "monthly"
       THEN /\ pb' = PbStart(NextOfAll(pb.type))
            /\ dirs' = dirs \cup {NextOfAll(pb.type)}
            /\ mail' = <<>>
            /\ UNCHANGED <<cmd, exitCode>>
       ELSE /\ pb' = PbIdle
            /\ cmd' = "none"
            /\ exitCode' = IF pb.pc = "returned" THEN 0 ELSE 1
            /\ mail' = <<>>
            /\ dirs' = dirs
    /\ log' = IF pb.pc = "returned" /\ cmd = "all" /\ pb.type # "monthly" THEN log ELSE {}
    /\ UNCHANGED <<now, config, iv, dest, sums, temp, cl, sched, faults>>

\* Lines 740-741 and 747-752: cleanup_old_backups returned or raised.
main_after_cleanup ==
    /\ cmd = "cleanup"
    /\ cl.pc \in {"returned", "raised"}
    /\ cl' = ClIdle
    /\ cmd' = "none"
    /\ exitCode' = IF cl.pc = "returned" THEN 0 ELSE 1
    /\ mail' = <<>>
    /\ log' = {}
    /\ UNCHANGED <<now, config, iv, dest, sums, dirs, temp, pb, sched, faults>>

\* Lines 742-743 and 747-752: start_scheduler returned (stopped by the user,
\* or after the crash handler) or raised.
main_after_scheduler ==
    /\ cmd = "daemon"
    /\ sched.pc \in {"stopped", "returned", "raised"}
    /\ sched' = SchedIdle
    /\ cmd' = "none"
    /\ exitCode' = IF sched.pc = "raised" THEN 1 ELSE 0
    /\ mail' = <<>>
    /\ log' = {}
    /\ UNCHANGED <<now, config, iv, dest, sums, dirs, temp, pb, cl, faults>>

\* ------------------------------------------------------------- environment
\* A day passes between two invocations of the command.
time_passes ==
    /\ cmd = "none"
    /\ \E first \in FirstDays : first <= now.day /\ now.day < first + MaxDays
    /\ now' = [day |-> now.day + 1, hour |-> 0]
    /\ mail' = <<>>
    /\ log' = {}
    /\ UNCHANGED <<config, iv, dest, sums, dirs, temp, cmd, exitCode, pb, cl, sched, faults>>

\* ----------------------------------------------------------- specification
Configs ==
    {[retention |-> [t \in BackupTypes |-> k], notify |-> n, month_unit |-> m] :
        k \in 0..MaxKeep, n \in BOOLEAN, m \in BOOLEAN}

InitWith(cfgs, t) ==
    /\ now = t
    /\ config \in cfgs
    /\ dest = EmptyMap
    /\ sums = EmptyMap
    /\ dirs = {}
    /\ temp = EmptyTemp
    /\ cmd = "none"
    /\ exitCode = -1
    /\ pb = PbIdle
    /\ cl = ClIdle
    /\ sched = SchedIdle
    /\ mail = <<>>
    /\ log = {}
    /\ faults = 0
    /\ iv = IvIdle

BackupNext ==
    \/ perform_backup_dump
    \/ perform_backup_seal
    \/ perform_backup_move_file
    \/ perform_backup_move_sum
    \/ perform_backup_verify
    \/ perform_backup_report
    \/ perform_backup_except

CleanupNext ==
    \/ cleanup_old_backups_class
    \/ cleanup_old_backups_delete
    \/ cleanup_old_backups_except

\* One-shot commands on the same or on successive days: the daily class once,
\* cleanup once, a test notification.
OneShotCommands == {"daily", "cleanup"}
Init == InitWith({c \in Configs : ~c.month_unit}, [day |-> StartOrdinal, hour |-> 0])
Next ==
    \/ \E c \in OneShotCommands : main_start(c)
    \/ main_test_notification
    \/ main_after_backup
    \/ main_after_cleanup
    \/ BackupNext
    \/ CleanupNext
    \/ time_passes

Spec == Init /\ [][Next]_vars

\* The daemon, started once: start_scheduler and its polling loop.
\* It is started late on StartDate, so its first whole day is the Sunday and
\* first of the month that follows, over a destination that holds the daily
\* artifact an earlier run wrote on StartDate.
DaemonInit ==
    /\ now = [day |-> StartOrdinal, hour |-> LastHour]
    /\ config \in Configs
    /\ dest = Put(EmptyMap, BackupPath("daily", [day |-> StartOrdinal, hour |-> 0]),
                  [bytes |-> 1, mtime |-> Timestamp([day |-> StartOrdinal, hour |-> 0])])
    /\ sums = Put(EmptyMap, BackupPath("daily", [day |-> StartOrdinal, hour |-> 0]), Sha256(1))
    /\ dirs = {"daily"}
    /\ temp = EmptyTemp
    /\ cmd = "none"
    /\ exitCode = -1
    /\ pb = PbIdle
    /\ cl = ClIdle
    /\ sched = SchedIdle
    /\ mail = <<>>
    /\ log = {}
    /\ faults = 0
    /\ iv = IvIdle
DaemonNext ==
    \/ (exitCode = -1 /\ main_start("daemon"))
    \/ main_after_scheduler
    \/ scheduler_run_pending
    \/ run_backup_job_after_backup
    \/ run_daily_backup_after_cleanup
    \/ cleanup_job_after
    \/ start_scheduler_crashed
    \/ scheduler_sleep
    \/ job_takes_time
    \/ keyboard_interrupt
    \/ BackupNext
    \/ CleanupNext

DaemonSpec == DaemonInit /\ [][DaemonNext]_vars

\* One cleanup command over a destination tree left by earlier runs: in each
\* class the artifacts of the last n[class] <= MaxFiles periods, written 31
\* days apart (so that their names differ in every class), the newest at
\* StartDate, each with its sidecar.
OldDay(i) == [day |-> StartOrdinal - 31 * i, hour |-> 0]
OldPaths(n) == {BackupPath(t, OldDay(i)) : t \in BackupTypes, i \in 0 .. (MaxFiles - 1)}
                  \cap UNION {{BackupPath(t, OldDay(i)) : i \in 0 .. (n[t] - 1)} : t \in BackupTypes}
OldTree(n) ==
    [p \in OldPaths(n) |->
        LET i == CHOOSE j \in 0 .. (MaxFiles - 1) : p = BackupPath(p.dir, OldDay(j))
        IN  [bytes |-> 1, mtime |-> Timestamp(OldDay(i))]]
CleanupInit ==
    /\ now = [day |-> StartOrdinal, hour |-> LastHour]
    /\ config \in {c \in Configs : ~c.month_unit}
    /\ \E n \in [BackupTypes -> 0..MaxFiles] :
          /\ dest = OldTree(n)
          /\ sums = [p \in OldPaths(n) |-> Sha256(1)]
          /\ dirs = {t \in BackupTypes : n[t] > 0}
    /\ temp = EmptyTemp
    /\ cmd = "none"
    /\ exitCode = -1
    /\ pb = PbIdle
    /\ cl = ClIdle
    /\ sched = SchedIdle
    /\ mail = <<>>
    /\ log = {}
    /\ faults = 0
    /\ iv = IvIdle
\* The command is given once on StartDate and again, any number of times, on
\* the days after it; no backup runs in between.
CleanupSpecNext ==
    \/ ((exitCode = -1 \/ now.day > StartOrdinal) /\ main_start("cleanup"))
    \/ main_after_cleanup
    \/ CleanupNext
    \/ (exitCode # -1 /\ time_passes)

CleanupSpec == CleanupInit /\ [][CleanupSpecNext]_vars

\* One cleanup command over a destination tree that also holds files that
\* are no artifacts of the three classes: an ad hoc artifact with its sidecar
\* in the directory of its own class, and in every class directory an
\* uncompressed dump (a file not named *.sql.gz) and the sidecar of an
\* artifact that is gone. They are older than every artifact.
AdHocPath == BackupPath("ad_hoc", OldDay(MaxFiles))
StrayPath(t) ==
    [dir |-> t, name |-> [get_backup_filename(t, OldDay(MaxFiles)) EXCEPT !.ext = ".sql"]]
OrphanPath(t) == BackupPath(t, OldDay(MaxFiles + 1))
MixedInit ==
    /\ now = [day |-> StartOrdinal, hour |-> LastHour]
    /\ config \in {c \in Configs : ~c.month_unit}
    /\ \E n \in [BackupTypes -> 0..MaxFiles] :
          LET classes == {t \in BackupTypes : n[t] > 0}
              others == {AdHocPath} \cup {StrayPath(t) : t \in classes}
          IN  /\ dest = [p \in OldPaths(n) \cup others |->
                            IF p \in others
                            THEN [bytes |-> 1, mtime |-> Timestamp(OldDay(MaxFiles))]
                            ELSE OldTree(n)[p]]
              /\ sums = [p \in OldPaths(n) \cup {AdHocPath}
                                  \cup {OrphanPath(t) : t \in classes} |-> Sha256(1)]
              /\ dirs = classes \cup {"ad_hoc"}
    /\ temp = EmptyTemp
    /\ cmd = "none"
    /\ exitCode = -1
    /\ pb = PbIdle
    /\ cl = ClIdle
    /\ sched = SchedIdle
    /\ mail = <<>>
    /\ log = {}
    /\ faults = 0
    /\ iv = IvIdle
MixedNext ==
    \/ (exitCode = -1 /\ main_start("cleanup"))
    \/ main_after_cleanup
    \/ CleanupNext

MixedSpec == MixedInit /\ [][MixedNext]_vars

\* _get_backup_filename called for a class on any date of the calendar.
name_backup ==
    /\ pb.pc = "idle"
    /\ \E t \in BackupTypes :
          pb' = [PbIdle EXCEPT !.pc = "named", !.type = t, !.path = BackupPath(t, now)]
    /\ UNCHANGED <<now, config, iv, dest, sums, dirs, temp, cmd, exitCode, cl, sched, mail,
                   log, faults>>

FilenameInit ==
    /\ now \in {[day |-> o, hour |-> 0] : o \in DOMAIN Calendar}
    /\ config \in {c \in Configs : ~c.month_unit /\ ~c.notify /\ c.retention["daily"] = 0}
    /\ dest = EmptyMap
    /\ sums = EmptyMap
    /\ dirs = {}
    /\ temp = EmptyTemp
    /\ cmd = "none"
    /\ exitCode = -1
    /\ pb = PbIdle
    /\ cl = ClIdle
    /\ sched = SchedIdle
    /\ mail = <<>>
    /\ log = {}
    /\ faults = 0
    /\ iv = IvIdle
FilenameNext == name_backup

FilenameSpec == FilenameInit /\ [][FilenameNext]_vars

\* The command that runs all classes once (--backup-type all), given once on
\* StartDate.
AllInit ==
    InitWith({c \in Configs : ~c.month_unit /\ c.retention["daily"] = 0},
             [day |-> StartOrdinal, hour |-> 0])
AllNext ==
    \/ (exitCode = -1 /\ main_start("all"))
    \/ main_after_backup
    \/ BackupNext

AllSpec == AllInit /\ [][AllNext]_vars

\* The weekly backup command, given on the first day and again, any number
\* of times, on that day and on the days after it: a day passes only once a
\* command has ended.
RerunInit ==
    /\ \E first \in FirstDays :
          InitWith({c \in Configs : ~c.month_unit /\ c.retention["daily"] = 0},
                   [day |-> first, hour |-> 0])
RerunNext ==
    \/ main_start("weekly")
    \/ main_after_backup
    \/ BackupNext
    \/ (exitCode # -1 /\ time_passes)

RerunSpec == RerunInit /\ [][RerunNext]_vars

\* IntegrityVerifier used directly on one file of any content, which has no
\* sidecar yet.
VerifierInit ==
    /\ now = [day |-> StartOrdinal, hour |-> 0]
    /\ config \in {c \in Configs : ~c.month_unit /\ ~c.notify}
    /\ \E t \in BackupTypes, b \in 0..MaxContent :
          /\ iv = [IvIdle EXCEPT !.pc = "file", !.path = BackupPath(t, now)]
          /\ dest = Put(EmptyMap, BackupPath(t, now), [bytes |-> b, mtime |-> Timestamp(now)])
          /\ dirs = {t}
    /\ sums = EmptyMap
    /\ temp = EmptyTemp
    /\ cmd = "none"
    /\ exitCode = -1
    /\ pb = PbIdle
    /\ cl = ClIdle
    /\ sched = SchedIdle
    /\ mail = <<>>
    /\ log = {}
    /\ faults = 0
VerifierNext ==
    \/ calculate_and_save_checksum
    \/ verify_file
    \/ file_changes

VerifierSpec == VerifierInit /\ [][VerifierNext]_vars

\* ------------------------------------------------------------ properties

\* C1: a run whose dump tool (mysqldump) exits non-zero moves neither the
\* artifact nor the sidecar into the destination directory and sends no
\* success notification.
C1_FailedDumpPublishesNothing ==
    (pb.pc # "idle" /\ pb.dump_rc # 0) =>
        /\ pb.moved = {}
        /\ \A i \in 1..Len(mail) : mail[i].subject # "Backup Successful"

\* C2: when the dump, the sealing, the publishing and the verification have
\* succeeded and only the delivery of the success notification fails,
\* perform_backup raises nothing and reports no failure: the delivery failure
\* is logged and that is all.
C2_SuccessNotificationFailureIsSwallowed ==
    (/\ pb.verified = "valid"
     /\ \E i \in 1..Len(mail) :
            mail[i].subject = "Backup Successful" /\ ~mail[i].delivered) =>
        /\ pb.pc # "raised"
        /\ "Backup failed" \notin log
        /\ \A i \in 1..Len(mail) : mail[i].subject # "Backup Failed"

\* C3: at every state, also between the two moves of a publication, every
\* artifact in the destination tree has its sidecar, and the sidecar records
\* the SHA-256 of the artifact's bytes. Stated of the runs in which nothing
\* has failed.
C3_AtomicPublication ==
    faults = 0 =>
        \A p \in DOMAIN dest : p \in DOMAIN sums /\ sums[p] = Sha256(dest[p].bytes)

\* C4: a cleanup that met no listing or deletion failure, for a class with a
\* keep count N >= 1 that held M > N artifacts when it started, leaves exactly
\* the N most recent of them, untouched and with the sidecars they had, and
\* has removed the M - N others together with their sidecars.
C4_CleanupLeavesNewest ==
    (cl.pc = "returned" /\ ~cl.failed /\ "Failed to delete old backup" \notin log) =>
        \A t \in BackupTypes :
            LET old == {p \in DOMAIN cl.before : p.dir = t}
                N == config.retention[t]
                kept == Glob(t)
            IN  (N >= 1 /\ Cardinality(old) > N) =>
                    /\ Cardinality(kept) = N
                    /\ kept \subseteq old
                    /\ \A p \in kept : \A q \in old \ kept :
                           cl.before[q].mtime < cl.before[p].mtime
                    /\ \A p \in kept :
                           /\ dest[p] = cl.before[p]
                           /\ p \in DOMAIN cl.before_sums =>
                                  p \in DOMAIN sums /\ sums[p] = cl.before_sums[p]
                    /\ \A q \in old \ kept : q \notin DOMAIN sums

\* A cleanup has returned after deleting from a class that held more
\* artifacts than its keep count.
C4_Witness ==
    /\ cl.pc = "returned" /\ ~cl.failed
    /\ "Failed to delete old backup" \notin log
    /\ "Deleted old backup" \in log
    /\ \E t \in BackupTypes :
           /\ config.retention[t] >= 1
           /\ Cardinality({p \in DOMAIN cl.before : p.dir = t}) > config.retention[t]
           /\ Cardinality(Glob(t)) = config.retention[t]

\* C5: from its start to its end a cleanup leaves in place, with its sidecar,
\* every artifact that was among the keep-count most recent of its class when
\* the cleanup started, whether or not the artifact verifies; so it deletes
\* nothing from a class that held no more artifacts than its keep count.
C5_CleanupSparesNewest ==
    cl.pc # "idle" =>
        \A p \in DOMAIN cl.before :
            LET newer == {q \in DOMAIN cl.before :
                             q.dir = p.dir /\ cl.before[q].mtime > cl.before[p].mtime}
            IN  Cardinality(newer) < config.retention[p.dir] =>
                    /\ p \in DOMAIN dest /\ dest[p] = cl.before[p]
                    /\ p \in DOMAIN cl.before_sums =>
                           p \in DOMAIN sums /\ sums[p] = cl.before_sums[p]

\* A cleanup has deleted an older artifact and kept a most recent one that
\* does not pass verification.
C5_Witness ==
    /\ cl.pc = "returned"
    /\ "Deleted old backup" \in log
    /\ \E p \in DOMAIN dest :
           /\ p \in DOMAIN cl.before
           /\ ~verify_checksum(p, TRUE).valid

\* C6: in the daemon, a failure of the call behind a trigger, a failure of
\* its failure notification included, neither ends the scheduling loop nor
\* removes a trigger: the loop never reaches its crash handler, and all four
\* triggers stay registered while it runs.
C6_TriggerFailureKeepsLoop ==
    cmd = "daemon" =>
        /\ sched.pc # "crashed"
        /\ sched.pc \in {"loop", "job"} =>
               DOMAIN sched.next_run = {Jobs[i] : i \in 1..Len(Jobs)}

\* C7: an interrupt of the daemon stops it only between two triggered
\* invocations: when the daemon has been stopped by the user, no
\* perform_backup and no cleanup_old_backups was cut short.
C7_InterruptSparesInvocation ==
    sched.pc = "stopped" =>
        sched.job = "none" /\ sched.aborted.pb = "idle" /\ sched.aborted.cl = "idle"

\* C8: the exception that leaves perform_backup is the one that failed the
\* run, also when the delivery of the failure notification fails.
C8_FailureReachesCallerUnmodified ==
    pb.pc = "raised" => pb.raised = pb.exc

C10_InvalidAfterPublishRaisesIntegrityError ==
    (pb.pc = "raised" /\ pb.verified = "invalid") =>
        /\ pb.raised = "IntegrityError"
        /\ config.notify => \E i \in 1..Len(mail) : mail[i].subject = "Backup Failed"
        /\ \A i \in 1..Len(mail) : mail[i].subject # "Backup Successful"
        /\ pb.path \in DOMAIN dest

\* C11: after cleanup_old_backups has returned, also when a deletion failed
\* part-way, no artifact that the cleanup found with a sidecar is still in
\* the destination while its sidecar is gone.
C11_SidecarSharesLifetime ==
    cl.pc = "returned" =>
        \A p \in DOMAIN dest :
            (p \in DOMAIN cl.before /\ p \in DOMAIN cl.before_sums) => p \in DOMAIN sums

\* C12: in a cleanup that listed every class it met, a candidate whose
\* deletion failed is logged, and the deletion of every other candidate, of
\* that class and of the classes after it, has still been attempted: every
\* artifact found with at least keep-count (>= 1) newer ones in its class has
\* been attempted, the classes in the order of the retention policy.
C12_FailedDeletionDoesNotAbort ==
    (cl.pc = "returned" /\ ~cl.failed) =>
        /\ \A p \in DOMAIN cl.before :
               LET N == config.retention[p.dir]
                   newer == {q \in DOMAIN cl.before :
                                q.dir = p.dir /\ cl.before[q].mtime > cl.before[p].mtime}
               IN  (N >= 1 /\ Cardinality(newer) >= N) =>
                       \E i \in 1..Len(cl.tried) : cl.tried[i].path = p
        /\ \A i \in 1..Len(cl.tried) :
               cl.tried[i].outcome # "deleted" => "Failed to delete old backup" \in log

\* A cleanup has returned in which a deletion failed and was followed by
\* attempts on a candidate of the same class and on one of a later class.
C12_Witness ==
    /\ cl.pc = "returned" /\ ~cl.failed
    /\ \E i, j, k \in 1..Len(cl.tried) :
           /\ i < j /\ j < k
           /\ cl.tried[i].outcome # "deleted"
           /\ cl.tried[j].path.dir = cl.tried[i].path.dir
           /\ cl.tried[k].path.dir # cl.tried[i].path.dir
           /\ cl.tried[k].outcome = "deleted"

\* C13: for every file content, a verify_checksum that returns after
\* calculate_checksum and save_checksum, with the sidecar they wrote still
\* there, answers valid exactly when the file holds the bytes that were
\* sealed: valid on the unmodified file, not valid once the bytes differ.
C13_VerifyRoundTrip ==
    (/\ iv.pc = "verified" /\ ~iv.result.raised
     /\ iv.sealed # -1 /\ iv.path \in DOMAIN sums /\ iv.path \in DOMAIN dest) =>
        (iv.result.valid <=> dest[iv.path].bytes = iv.sealed)

\* A verification has answered not valid for a sealed file whose bytes were
\* changed afterwards, the sidecar left as it was.
C13_Witness ==
    /\ iv.pc = "verified" /\ ~iv.result.raised /\ ~iv.result.valid
    /\ iv.sealed # -1 /\ iv.path \in DOMAIN sums /\ iv.path \in DOMAIN dest
    /\ sums[iv.path] = Sha256(iv.sealed)
    /\ dest[iv.path].bytes # iv.sealed

\* C14 (as the spec states it): verify_checksum returns not valid without
\* raising when the sidecar is missing or the digests differ, and raises
\* IntegrityError whenever the artifact is missing or cannot be read, whether
\* or not its sidecar exists.
C14_MissingArtifactRaises ==
    iv.pc = "verified" =>
        /\ (iv.path \notin DOMAIN sums) => (~iv.result.raised /\ ~iv.result.valid)
        /\ (iv.path \notin DOMAIN dest \/ ~iv.readable) => iv.result.raised

\* C14 (amended): verify_checksum returns (false, "Checksum file not found")
\* without raising whenever the sidecar is missing, whether or not the
\* artifact exists or can be read; with the sidecar present it raises
\* IntegrityError exactly when the artifact is missing or a file cannot be
\* read, and returns (false, "Checksum verification failed") without raising
\* when the digests differ.
C14_SidecarIsLookedForFirst ==
    iv.pc = "verified" =>
        /\ (iv.path \notin DOMAIN sums) =>
               /\ ~iv.result.raised /\ ~iv.result.valid
               /\ iv.result.message = "Checksum file not found"
        /\ (iv.path \in DOMAIN sums) =>
               /\ iv.result.raised <=> (iv.path \notin DOMAIN dest \/ ~iv.readable)
               /\ (iv.path \in DOMAIN dest /\ iv.readable
                   /\ sums[iv.path] # Sha256(dest[iv.path].bytes)) =>
                      /\ ~iv.result.valid
                      /\ iv.result.message = "Checksum verification failed"

\* A verification of a file that is gone, and whose sidecar is gone too, has
\* returned without raising.
C14_Witness ==
    /\ iv.pc = "verified"
    /\ iv.path \notin DOMAIN dest /\ iv.path \notin DOMAIN sums
    /\ ~iv.result.raised /\ ~iv.result.valid

\* C15: on start, start_scheduler registers all four triggers (daily backup,
\* weekly backup, monthly backup, daily cleanup) and enters its polling loop:
\* the daemon never fails in the registration, and holds four registered
\* triggers from its start on.
C15_RegistersFourTriggers ==
    cmd = "daemon" =>
        /\ ~(sched.pc = "raised" /\ sched.error = "AttributeError")
        /\ DOMAIN sched.next_run = {Jobs[i] : i \in 1..Len(Jobs)}

\* C16: whenever the scheduler loop has ended because of an error that no
\* per-trigger handler caught, and notifications are enabled, the crash has
\* been logged and a failure event of its own type, "scheduler", has been
\* handed to the Notifier by the time start_scheduler returns or raises.
C16_CrashIsReported ==
    (/\ cmd = "daemon" /\ config.notify
     /\ sched.pc \in {"returned", "raised"}
     /\ sched.error \notin {"none", "AttributeError"}) =>
        /\ "Scheduler crashed" \in log
        /\ \E i \in 1..Len(mail) :
               mail[i].type = "scheduler" /\ mail[i].subject = "Backup Failed"

\* start_scheduler has returned after a crash of the loop whose notification
\* was delivered.
C16_Witness ==
    /\ cmd = "daemon" /\ config.notify
    /\ sched.pc = "returned" /\ sched.error = "NotificationError"
    /\ \E i \in 1..Len(mail) :
           mail[i].type = "scheduler" /\ mail[i].subject = "Backup Failed" /\ mail[i].delivered

C18_CleanupFollowsSuccessfulDaily ==
    (cmd = "daemon" /\ sched.pc = "job" /\ sched.job = "run_daily_backup"
     /\ pb.pc = "raised") =>
        ~(pb.verified = "valid" /\ pb.moved = {"artifact", "sidecar"})

\* C19: an error raised inside a cleanup run is caught at the boundary of
\* cleanup_old_backups, logged, reported, and then re-raised to the caller: a
\* cleanup that was aborted by an error never returns normally.
C19_CleanupErrorIsReraised ==
    (cl.failed /\ cl.pc \notin {"class", "delete", "except"}) =>
        /\ "Backup cleanup failed" \in log
        /\ cl.pc = "raised"

\* C20: for every command, main returns exit code 0 exactly when the selected
\* action succeeded: a backup run that returned, a cleanup that was not
\* aborted by an error, a scheduler that was stopped by the user and did not
\* crash.
C20_ExitCodeTellsOutcome ==
    [][(cmd # "none" /\ cmd' = "none") =>
          (exitCode' = 0 <=>
              CASE cmd = "cleanup" -> cl.pc = "returned" /\ ~cl.failed
                [] cmd = "daemon" -> sched.pc = "stopped"
                [] OTHER -> pb.pc = "returned")]_vars

C22_StepsInOrder ==
    [][/\ ("artifact" \in pb'.moved /\ "artifact" \notin pb.moved) =>
              /\ pb.dump_rc = 0 /\ pb.rc = 0
              /\ temp.has_file /\ temp.has_sum /\ temp.sum = Sha256(temp.bytes)
              /\ pb.checksum = temp.sum
       /\ (Len(mail') > Len(mail) /\ mail'[Len(mail')].subject = "Backup Successful") =>
              /\ pb.moved = {"artifact", "sidecar"}
              /\ pb.verified = "valid"
              /\ verify_checksum(pb.path, TRUE).valid]_vars

\* C23: a perform_backup that fails in the Dump or the Seal step changes no
\* file of the destination tree: every step of the call up to the exception
\* leaving it keeps the artifacts and the sidecars as they were, so an
\* artifact published before, that of the same class and period included,
\* still verifies as valid, and the scratch directory is gone when the
\* exception leaves the call.
C23_EarlyFailureLeavesDestination ==
    [][(\/ pb.pc \in {"dump", "seal"}
        \/ /\ pb.pc = "except" /\ pb.moved = {}
           /\ pb.exc \in {"BackupProcessError", "IntegrityError"}) =>
          /\ dest' = dest /\ sums' = sums
          /\ \A p \in DOMAIN dest :
                 verify_checksum(p, TRUE).valid => (verify_checksum(p, TRUE).valid)'
          /\ pb'.pc = "raised" => ~temp'.has_file /\ ~temp'.has_sum]_vars

\* A run has failed in its dump step on a day whose artifact an earlier run
\* had published: the artifact is there, it verifies, and no scratch file is
\* left.
C23_Witness ==
    /\ pb.pc = "raised" /\ pb.exc = "BackupProcessError" /\ pb.moved = {}
    /\ pb.path \in DOMAIN dest /\ dest[pb.path].bytes # Truncated
    /\ verify_checksum(pb.path, TRUE).valid
    /\ ~temp.has_file /\ ~temp.has_sum

\* C24: weekly filenames are injective over ISO weeks: a date of another ISO
\* week (another Monday-to-Sunday span) never resolves to the weekly filename
\* of the current date.
C24_WeeklyNamesInjective ==
    (pb.pc = "named" /\ pb.type = "weekly") =>
        \A o \in DOMAIN Calendar :
            (o - IsoWeekday(o) # now.day - IsoWeekday(now.day)) =>
                get_backup_filename("weekly", [day |-> o, hour |-> 0]) # pb.path.name

\* C25: for every keep count k >= 0, k = 0 included, and every number M of
\* artifacts of a class, a cleanup that met no listing or deletion failure
\* has deleted exactly max(0, M - k) artifacts of the class, and they are the
\* oldest ones.
C25_DeletesAllButKeepCount ==
    (cl.pc = "returned" /\ ~cl.failed /\ "Failed to delete old backup" \notin log) =>
        \A t \in BackupTypes :
            LET old == {p \in DOMAIN cl.before : p.dir = t}
                k == config.retention[t]
                M == Cardinality(old)
                gone == old \ DOMAIN dest
            IN  /\ Cardinality(gone) = IF M > k THEN M - k ELSE 0
                /\ \A q \in gone : \A p \in old \ gone :
                       cl.before[q].mtime < cl.before[p].mtime

\* C26: no "Backup Failed" notification is attempted for a run whose artifact
\* and sidecar were published and passed the verification after publishing,
\* and with the notifier enabled a run that has ended has attempted exactly
\* one outcome notification, a success or a failure.
C26_OneOutcomeNotification ==
    pb.pc # "idle" =>
        /\ (pb.verified = "valid" /\ pb.moved = {"artifact", "sidecar"}) =>
               \A i \in 1..Len(mail) : mail[i].subject # "Backup Failed"
        /\ (config.notify /\ pb.pc \in {"returned", "raised"}) =>
               /\ Len(mail) = 1
               /\ mail[1].subject \in {"Backup Successful", "Backup Failed"}
               /\ mail[1].type = pb.type

\* C27: a successful run overwrites what an earlier run of the same class
\* published in the same period (the same day, ISO week or month): the move
\* that publishes the artifact does not change the set of artifacts of the
\* class that retention lists, and when the run has returned the class
\* directory holds exactly one artifact written in the period, whose bytes
\* and sidecar digest are those of this second run.
C27_RerunOverwrites ==
    [][LET t == pb.type
           SamePeriod(mtime) ==
               LET d == mtime \div 24 IN
               CASE t = "daily" -> d = now.day
                 [] t = "weekly" -> d - IsoWeekday(d) = now.day - IsoWeekday(now.day)
                 [] OTHER -> YearOf(d) = YearOf(now.day) /\ MonthOf(d) = MonthOf(now.day)
       IN  /\ (/\ pb.pc = "move_file" /\ "artifact" \in pb'.moved
               /\ \E p \in Glob(t) : SamePeriod(dest[p].mtime)) =>
                  {p \in DOMAIN dest' : p.dir = t} = {p \in DOMAIN dest : p.dir = t}
           /\ (pb.pc = "report" /\ pb'.pc = "returned") =>
                  /\ Cardinality({p \in DOMAIN dest' :
                                     p.dir = t /\ SamePeriod(dest'[p].mtime)}) = 1
                  /\ pb.path \in DOMAIN dest' /\ pb.path \in DOMAIN sums'
                  /\ dest'[pb.path].mtime = Timestamp(now)
                  /\ Sha256(dest'[pb.path].bytes) = pb.checksum
                  /\ sums'[pb.path] = pb.checksum]_vars

C30_AllStopsAtFirstFailure ==
    [][/\ (cmd # "all" /\ cmd' = "all") => (pb'.type = "daily" /\ pb'.pc = "dump")
       /\ cmd' = "all" => cl'.pc = "idle"
       /\ cmd = "all" =>
              /\ pb'.type # pb.type =>
                     \/ /\ pb.pc = "returned" /\ pb'.pc = "dump" /\ cmd' = "all"
                        /\ <<pb.type, pb'.type>> \in {<<"daily", "weekly">>,
                                                      <<"weekly", "monthly">>}
                     \/ pb'.pc = "idle" /\ cmd' = "none"
              /\ pb.pc = "returned" /\ pb.type # "monthly" => cmd' = "all" /\ pb'.pc = "dump"
              /\ pb.pc = "raised" => (cmd' = "none" /\ exitCode' = 1 /\ pb'.pc = "idle")
              /\ cmd' = "none" =>
                     (exitCode' = 0 <=> (pb.pc = "returned" /\ pb.type = "monthly"))
              /\ cmd' = "none" => cl'.pc = "idle" /\ dest' = dest /\ sums' = sums]_vars

\* The command has ended with exit code 1 after its weekly backup raised: the
\* daily and the weekly directory exist, the monthly class was never started.
C30_Witness ==
    /\ cmd = "none" /\ exitCode = 1
    /\ dirs = {"daily", "weekly"}
    /\ BackupPath("daily", now) \in DOMAIN dest
    /\ cl.pc = "idle"

====
